---- MODULE Spec2Model ----
(***************************************************************************)
(* Model of chezona/chorom, src/main.py: the WhatsApp message handler      *)
(* handle_incoming_message and the LangGraph workflow it invokes           *)
(* (analyze_intent -> route -> search_meili | structure_ingestion_data ->  *)
(* add_product_to_meili -> END).                                           *)
(*                                                                         *)
(* Encoding of Python values:                                              *)
(*   str            a sequence of tokens, each token a TLA+ string that is *)
(*                  one character or one literal phrase of the source     *)
(*   Optional[x]    None == <<>>, a present value v is Some(v) == <<v>>    *)
(*   dict           a function from key strings to Optional values         *)
(***************************************************************************)
EXTENDS Integers, Sequences, FiniteSets, TLC

VARIABLES
    msg,            \* the inbound pywa message handed to the handler
    pc,             \* position of the handler / of the graph run
    state,          \* the AgentState of the run (the graph's channels)
    route_state,    \* the state mapping the router was called with, after the call
    route_decision, \* what the router returned
    executed,       \* the graph nodes run so far, in order
    llm_calls,      \* calls of structured_llm.invoke: text content and reply
    meili_added,    \* calls of meili_index.add_documents: document and reply
    meili_searches, \* calls of meili_index.search: query, search_params and reply
    replies,        \* texts delivered to the sender through msg.reply_text
    final_state,    \* what app_graph.invoke returned, None until it returns
    next_uuid       \* source of uuid.uuid4() values

vars == <<msg, pc, state, route_state, route_decision, executed, llm_calls,
          meili_added, meili_searches, replies, final_state, next_uuid>>

----------------------------------------------------------------------------
(* Python values *)

None == <<>>
Some(v) == <<v>>
IsNone(o) == Len(o) = 0
IsSome(o) == Len(o) = 1
Val(o) == o[1]

\* Python truthiness of an Optional[str]: None and "" are falsy
Truthy(o) == IsSome(o) /\ Len(Val(o)) > 0

\* dict.get(key, default)
Get(d, key, default) == IF key \in DOMAIN d THEN d[key] ELSE default

\* str(x) of an Optional[str] inside an f-string
FmtStr(o) == IF IsNone(o) THEN <<"None">> ELSE Val(o)

\* str(x) of an Optional[int] inside an f-string
FmtNum(o) == IF IsNone(o) THEN <<"None">> ELSE <<ToString(Val(o))>>

----------------------------------------------------------------------------
(* Bounds of the model *)

\* length of the longest message text, one more than the fallback name keeps
LongLen == 51
\* most hits a search reply carries
MaxHits == 4

\* text[:50] of the fallback item name
NameLimit == 50
\* hits[:3] of the search summary
HitLimit == 3

LongText == [i \in 1..LongLen |-> "x"]

\* message bodies and captions
Texts == { <<"a">>, <<"a", "\n", "b">>, <<"\n", "b">>, LongText }

MediaKinds == {"image", "video", "audio", "document"}

\* msg.type.value
MessageTypes == {"text"} \cup MediaKinds \cup {"location"}

\* the pywa messages the handler can receive: a text message has a body, a
\* media message has an optional caption, any other type has neither
Messages ==
    { [type |-> "text", text |-> Some(t), caption |-> None] : t \in Texts }
    \cup { [type |-> k, text |-> None, caption |-> c] :
             k \in MediaKinds, c \in {None} \cup {Some(t) : t \in {<<"a">>, <<"a", "\n", "b">>}} }
    \cup { [type |-> "location", text |-> None, caption |-> None] }

SenderId == <<"256700000001">>

----------------------------------------------------------------------------
(* The replies of the external collaborators *)

\* intent strings and task statuses are only ever compared, never cut or
\* joined: they are kept as TLA+ strings
KnownIntents == {"query_product", "ingest_product", "greeting", "unknown"}

\* QueryAnalysis: intent is any str, the other fields are Optional
QueryAnalysis ==
    [ intent    : KnownIntents \cup {"ask_price"},
      item_name : {None, Some(<<>>), Some(<<"i">>)},
      location  : {None, Some(<<"k">>)},
      price     : {None, Some(5)},
      currency  : {None, Some(<<"USD">>)} ]

\* structured_llm.invoke(prompt): raises, or returns a QueryAnalysis
LlmReplies ==
    { [ok |-> FALSE] } \cup { [ok |-> TRUE, analysis |-> a] : a \in QueryAnalysis }

\* meili_index.add_documents: raises, returns a TaskInfo object, a legacy
\* dict, or something of neither shape
AddReplies ==
    { [kind |-> "raise"],
      [kind |-> "TaskInfo", task_uid |-> 7],
      [kind |-> "dict", body |-> [taskUid |-> 8]],
      [kind |-> "dict", body |-> [uid |-> 9]],
      [kind |-> "other"] }

\* the documents the index can return as hits
HitA == [name |-> Some(<<"i">>), price |-> Some(5), currency |-> Some(<<"USD">>),
         vendor |-> Some(<<"v">>)]
HitB == [name |-> Some(<<"j">>), price |-> None]
HitDocs == {HitA, HitB}

HitSeqs == UNION { [1..n -> HitDocs] : n \in 0..MaxHits }

\* meili_index.search: raises, or returns a dict that has 'hits' or not
SearchReplies ==
    { [kind |-> "raise"], [kind |-> "ok", body |-> [estimatedTotalHits |-> 0]] }
    \cup { [kind |-> "ok", body |-> [hits |-> h]] : h \in HitSeqs }

\* media_downloader.download_media: a path, None, or an exception
DownloadReplies == {"path", "none", "raise"}

----------------------------------------------------------------------------
(* The user-facing messages of the source *)

MsgNoContent == <<"Sorry, I couldn't understand the message content. Please send text or media.">>
MsgInternalState == <<"Internal error processing message state.">>
MsgGreeting == <<"Hello there! How can I help you?">>
MsgUnknown == <<"Sorry, I'm not sure how to help with that. I can search for products or add new ones if you provide details.">>
MsgLlmTrouble == <<"Sorry, I had trouble analyzing the details of your request.">>
MsgMissingFields == <<"Missing product name/description for ingestion.">>
MsgNoProductData == <<"Error: Could not structure product data for storage.">>
MsgNoTaskId == <<"Error: Failed to get task ID after submitting product.">>
MsgAddError == <<"Sorry, there was an error adding the product to the catalog.">>
MsgNoSearchTerm == <<"Sorry, I couldn't determine what to search for.">>
MsgSearchError == <<"Sorry, there was an error searching.">>
MsgNoItem == <<"You asked to search, but didn't specify an item.">>
MsgIssue == <<"Sorry, I encountered an issue processing your request.">>
MsgInternalError == <<"Sorry, an internal error occurred while processing your request.">>

----------------------------------------------------------------------------
(* analyze_intent_node *)

\* the no-content test with the `not` on media_id lost
NoContent_mediaOnly(st) == ~Truthy(st.incoming_text) /\ Truthy(st.incoming_media_id)

\* `not text_content and not media_id`
NoContent(st) == ~Truthy(st.incoming_text) /\ ~Truthy(st.incoming_media_id)

\* the text handed to the LLM without the "" for a missing caption
TextContent_raw(st) == st.incoming_text

\* the text handed to the LLM: "" replaces a missing caption when media is present
TextContent(st) ==
    IF Truthy(st.incoming_media_id) /\ ~Truthy(st.incoming_text)
    THEN Some(<<>>)
    ELSE st.incoming_text

\* the intent taken from the LLM alone, without the media override
IntentAfterAnalysis_llmOnly(st, analysis) == analysis.intent

\* the media override spelled with a different intent string
IntentAfterAnalysis_otherLiteral(st, analysis) ==
    IF Truthy(st.incoming_media_id) THEN "ingest" ELSE analysis.intent

\* intent after a successful analysis: media overrides the LLM's intent
IntentAfterAnalysis(st, analysis) ==
    IF Truthy(st.incoming_media_id) THEN "ingest_product" ELSE analysis.intent

\* f"vendor = '{location}'"
MeiliFilter(location) == <<"vendor = '">> \o FmtStr(location) \o <<"'">>

\* the classifier step whose except branch sets the apology but not the intent,
\* leaving the ingest_product the media check assigned before the call
analyze_intent_node_keepsIntent(st, llm) ==
    IF NoContent(st)
    THEN [st EXCEPT !.intent = Some("error"), !.response = Some(MsgNoContent)]
    ELSE IF ~llm.ok
    THEN [st EXCEPT !.intent = IF Truthy(st.incoming_media_id)
                               THEN Some("ingest_product") ELSE @,
                    !.response = Some(MsgLlmTrouble)]
    ELSE
      LET analysis == llm.analysis
          intent == IntentAfterAnalysis(st, analysis)
          location == IF intent = "query_product" /\ ~Truthy(st.incoming_media_id)
                      THEN analysis.location ELSE None
      IN [st EXCEPT
            !.intent = Some(intent),
            !.item_name = analysis.item_name,
            !.price = analysis.price,
            !.currency = analysis.currency,
            !.location = location,
            !.description = IF intent = "ingest_product" THEN TextContent(st) ELSE None,
            !.meili_filters = IF intent = "query_product" /\ Truthy(location)
                              THEN Some(MeiliFilter(location)) ELSE None,
            !.response = IF intent = "greeting" THEN Some(MsgGreeting)
                         ELSE IF intent = "unknown" THEN Some(MsgUnknown)
                         ELSE @]

\* the classifier step building the filter from the classifier's location
\* without testing the intent
analyze_intent_node_filterAnyIntent(st, llm) ==
    IF NoContent(st)
    THEN [st EXCEPT !.intent = Some("error"), !.response = Some(MsgNoContent)]
    ELSE IF ~llm.ok
    THEN [st EXCEPT !.intent = Some("error"), !.response = Some(MsgLlmTrouble)]
    ELSE
      LET analysis == llm.analysis
          intent == IntentAfterAnalysis(st, analysis)
          location == IF intent = "query_product" /\ ~Truthy(st.incoming_media_id)
                      THEN analysis.location ELSE None
      IN [st EXCEPT
            !.intent = Some(intent),
            !.item_name = analysis.item_name,
            !.price = analysis.price,
            !.currency = analysis.currency,
            !.location = location,
            !.description = IF intent = "ingest_product" THEN TextContent(st) ELSE None,
            !.meili_filters = IF Truthy(analysis.location)
                              THEN Some(MeiliFilter(analysis.location)) ELSE None,
            !.response = IF intent = "greeting" THEN Some(MsgGreeting)
                         ELSE IF intent = "unknown" THEN Some(MsgUnknown)
                         ELSE @]

\* the classifier step storing the classifier's location unconditionally
analyze_intent_node_keepsLocation(st, llm) ==
    IF NoContent(st)
    THEN [st EXCEPT !.intent = Some("error"), !.response = Some(MsgNoContent)]
    ELSE IF ~llm.ok
    THEN [st EXCEPT !.intent = Some("error"), !.response = Some(MsgLlmTrouble)]
    ELSE
      LET analysis == llm.analysis
          intent == IntentAfterAnalysis(st, analysis)
          location == analysis.location
      IN [st EXCEPT
            !.intent = Some(intent),
            !.item_name = analysis.item_name,
            !.price = analysis.price,
            !.currency = analysis.currency,
            !.location = location,
            !.description = IF intent = "ingest_product" THEN TextContent(st) ELSE None,
            !.meili_filters = IF intent = "query_product" /\ Truthy(location)
                              THEN Some(MeiliFilter(location)) ELSE None,
            !.response = IF intent = "greeting" THEN Some(MsgGreeting)
                         ELSE IF intent = "unknown" THEN Some(MsgUnknown)
                         ELSE @]

analyze_intent_node(st, llm) ==
    IF NoContent(st)
    THEN [st EXCEPT !.intent = Some("error"), !.response = Some(MsgNoContent)]
    ELSE IF ~llm.ok
    THEN [st EXCEPT !.intent = Some("error"), !.response = Some(MsgLlmTrouble)]
    ELSE
      LET analysis == llm.analysis
          intent == IntentAfterAnalysis(st, analysis)
          location == IF intent = "query_product" /\ ~Truthy(st.incoming_media_id)
                      THEN analysis.location ELSE None
      IN [st EXCEPT
            !.intent = Some(intent),
            !.item_name = analysis.item_name,
            !.price = analysis.price,
            !.currency = analysis.currency,
            !.location = location,
            !.description = IF intent = "ingest_product" THEN TextContent(st) ELSE None,
            !.meili_filters = IF intent = "query_product" /\ Truthy(location)
                              THEN Some(MeiliFilter(location)) ELSE None,
            !.response = IF intent = "greeting" THEN Some(MsgGreeting)
                         ELSE IF intent = "unknown" THEN Some(MsgUnknown)
                         ELSE @]

----------------------------------------------------------------------------
(* structure_ingestion_data_node *)

RECURSIVE FirstLine(_)
\* text.split('\n')[0]
FirstLine(text) ==
    IF text = <<>> \/ Head(text) = "\n" THEN <<>>
    ELSE <<Head(text)>> \o FirstLine(Tail(text))

\* the slice without its limit
Prefix_untruncated(text, n) == text

\* text[:n]
Prefix(text, n) == SubSeq(text, 1, IF Len(text) < n THEN Len(text) ELSE n)

\* the item name the structurer settles on once validation has passed
StructuredName(item_name, description) ==
    IF ~Truthy(item_name) /\ Truthy(description)
    THEN Some(Prefix(FirstLine(Val(description)), NameLimit))
    ELSE IF ~Truthy(item_name) THEN Some(<<"Unknown Item">>)
    ELSE item_name

\* `description or ""`
DescriptionOrEmpty(description) == IF Truthy(description) THEN description ELSE Some(<<>>)

\* the structurer without its validation, falling through to the name fallbacks
structure_ingestion_data_node_unvalidated(st, uuid) ==
    LET item_name == Get(st, "item_name", None)
        description == Get(st, "description", None)
    IN [st EXCEPT !.product_to_ingest = Some(
          [ id          |-> Some(<<"uuid-", ToString(uuid)>>),
            name        |-> StructuredName(item_name, description),
            description |-> DescriptionOrEmpty(description),
            price       |-> Get(st, "price", None),
            currency    |-> Get(st, "currency", Some(<<"UGX">>)),
            category    |-> Some(<<"Unknown">>),
            vendor      |-> Get(st, "sender_id", None),
            media_path  |-> Get(st, "incoming_media_path", None) ])]

structure_ingestion_data_node(st, uuid) ==
    LET item_name == Get(st, "item_name", None)
        description == Get(st, "description", None)
    IN IF ~Truthy(item_name) /\ ~Truthy(description)
       THEN [st EXCEPT !.response = Some(MsgMissingFields), !.product_to_ingest = None]
       ELSE [st EXCEPT !.product_to_ingest = Some(
               [ id          |-> Some(<<"uuid-", ToString(uuid)>>),
                 name        |-> StructuredName(item_name, description),
                 description |-> DescriptionOrEmpty(description),
                 price       |-> Get(st, "price", None),
                 currency    |-> Get(st, "currency", Some(<<"UGX">>)),
                 category    |-> Some(<<"Unknown">>),
                 vendor      |-> Get(st, "sender_id", None),
                 media_path  |-> Get(st, "incoming_media_path", None) ])]

----------------------------------------------------------------------------
(* add_product_to_meili_node *)

\* the writer reaches meili_index.add_documents only with product data
SubmitsDocument(st) == IsSome(st.product_to_ingest)

\* the task id looked for on the TaskInfo object alone
HasTaskId_objectOnly(reply) == reply.kind = "TaskInfo"

\* hasattr(task_info, 'task_uid'), else a dict with key 'taskUid'
HasTaskId(reply) ==
    \/ reply.kind = "TaskInfo"
    \/ reply.kind = "dict" /\ "taskUid" \in DOMAIN reply.body

TaskId(reply) == IF reply.kind = "TaskInfo" THEN reply.task_uid ELSE reply.body["taskUid"]

\* the writer recording a failed task when the write raises
add_product_to_meili_node_marksFailed(st, reply) ==
    IF ~SubmitsDocument(st)
    THEN [st EXCEPT !.response = Some(MsgNoProductData)]
    ELSE IF reply.kind = "raise"
    THEN [st EXCEPT !.response = Some(MsgAddError), !.meili_task_status = Some("failed")]
    ELSE IF ~HasTaskId(reply)
    THEN [st EXCEPT !.response = Some(MsgNoTaskId)]
    ELSE [st EXCEPT !.meili_task_id = Some(TaskId(reply)),
                    !.meili_task_status = Some("enqueued")]

\* the writer also setting intent to 'error' when the write raises
add_product_to_meili_node_setsIntent(st, reply) ==
    IF ~SubmitsDocument(st)
    THEN [st EXCEPT !.response = Some(MsgNoProductData)]
    ELSE IF reply.kind = "raise"
    THEN [st EXCEPT !.response = Some(MsgAddError), !.intent = Some("error")]
    ELSE IF ~HasTaskId(reply)
    THEN [st EXCEPT !.response = Some(MsgNoTaskId)]
    ELSE [st EXCEPT !.meili_task_id = Some(TaskId(reply)),
                    !.meili_task_status = Some("enqueued")]

\* the writer setting the status before the write, so that it stays when the
\* write raises or its answer carries no task id
add_product_to_meili_node_statusFirst(st, reply) ==
    IF ~SubmitsDocument(st)
    THEN [st EXCEPT !.response = Some(MsgNoProductData)]
    ELSE IF reply.kind = "raise"
    THEN [st EXCEPT !.response = Some(MsgAddError), !.meili_task_status = Some("enqueued")]
    ELSE IF ~HasTaskId(reply)
    THEN [st EXCEPT !.response = Some(MsgNoTaskId), !.meili_task_status = Some("enqueued")]
    ELSE [st EXCEPT !.meili_task_id = Some(TaskId(reply)),
                    !.meili_task_status = Some("enqueued")]

add_product_to_meili_node(st, reply) ==
    IF ~SubmitsDocument(st)
    THEN [st EXCEPT !.response = Some(MsgNoProductData)]
    ELSE IF reply.kind = "raise"
    THEN [st EXCEPT !.response = Some(MsgAddError)]
    ELSE IF ~HasTaskId(reply)
    THEN [st EXCEPT !.response = Some(MsgNoTaskId)]
    ELSE [st EXCEPT !.meili_task_id = Some(TaskId(reply)),
                    !.meili_task_status = Some("enqueued")]

----------------------------------------------------------------------------
(* search_meilisearch_node *)

\* `not query or state.get('intent') == 'error'`
SearchGuarded(st) ==
    ~Truthy(Get(st, "item_name", None)) \/ Get(st, "intent", None) = Some("error")

\* {"filter": filters} if filters else {}
SearchParams(st) ==
    IF Truthy(Get(st, "meili_filters", None))
    THEN [filter |-> Get(st, "meili_filters", None)]
    ELSE <<>>

\* f"- {name} ({price} {currency}, Vendor: {vendor})"
FormatHit(hit) ==
    <<"- ">> \o FmtStr(Get(hit, "name", Some(<<"N/A">>)))
    \o <<" (">> \o FmtNum(Get(hit, "price", Some(0)))
    \o <<" ">> \o FmtStr(Get(hit, "currency", Some(<<>>)))
    \o <<", Vendor: ">> \o FmtStr(Get(hit, "vendor", Some(<<"N/A">>)))
    \o <<")">>

RECURSIVE JoinLines(_)
\* "\n".join(lines)
JoinLines(lines) ==
    IF lines = <<>> THEN <<>>
    ELSE IF Len(lines) = 1 THEN lines[1]
    ELSE lines[1] \o <<"\n">> \o JoinLines(Tail(lines))

\* the summary without its cap
TopHits_all(hits) == hits

\* hits[:3]
TopHits(hits) == SubSeq(hits, 1, IF Len(hits) < HitLimit THEN Len(hits) ELSE HitLimit)

FormattedHits(hits) == JoinLines([i \in 1..Len(TopHits(hits)) |-> FormatHit(TopHits(hits)[i])])

\* the not-found message without the location
NotFoundResponse_noLocation(query, location) ==
    <<"I couldn't find any '">> \o FmtStr(query) \o <<"'">> \o <<".">>

NotFoundResponse(query, location) ==
    <<"I couldn't find any '">> \o FmtStr(query) \o <<"'">>
    \o (IF Truthy(location) THEN <<" in ">> \o FmtStr(location) \o <<".">> ELSE <<".">>)

FoundResponse(query, location, hits) ==
    <<"Found these results for '">> \o FmtStr(query) \o <<"'">>
    \o (IF Truthy(location) THEN <<" in ">> \o FmtStr(location) ELSE <<>>)
    \o <<":", "\n">> \o FormattedHits(hits)

\* the search step whose except branch sets the response but not search_results
search_meilisearch_node_keepsResults(st, result) ==
    LET query == Get(st, "item_name", None)
    IN IF SearchGuarded(st)
       THEN [st EXCEPT !.response = IF ~Truthy(Get(st, "response", None))
                                    THEN Some(MsgNoSearchTerm) ELSE @,
                       !.search_results = Some(<<>>)]
       ELSE IF result.kind = "raise"
       THEN [st EXCEPT !.response = Some(MsgSearchError)]
       ELSE LET hits == Get(result.body, "hits", <<>>)
            IN [st EXCEPT
                  !.search_results = Some(hits),
                  !.response = IF hits = <<>>
                               THEN Some(NotFoundResponse(query, st.location))
                               ELSE Some(FoundResponse(query, st.location, hits))]

search_meilisearch_node(st, result) ==
    LET query == Get(st, "item_name", None)
    IN IF SearchGuarded(st)
       THEN [st EXCEPT !.response = IF ~Truthy(Get(st, "response", None))
                                    THEN Some(MsgNoSearchTerm) ELSE @,
                       !.search_results = Some(<<>>)]
       ELSE IF result.kind = "raise"
       THEN [st EXCEPT !.search_results = Some(<<>>), !.response = Some(MsgSearchError)]
       ELSE LET hits == Get(result.body, "hits", <<>>)
            IN [st EXCEPT
                  !.search_results = Some(hits),
                  !.response = IF hits = <<>>
                               THEN Some(NotFoundResponse(query, st.location))
                               ELSE Some(FoundResponse(query, st.location, hits))]

----------------------------------------------------------------------------
(* route_after_intent_analysis and the graph's edges *)

END == "__end__"

\* the router's return value
RouteDecision(st) ==
    LET intent == Get(st, "intent", None)
    IN IF intent = Some("query_product")
       THEN IF Truthy(Get(st, "item_name", None)) THEN "search_meili" ELSE END
       ELSE IF intent = Some("ingest_product") THEN "structure_ingestion_data"
       ELSE END

\* the router filling the response on its terminal paths without first
\* testing whether one is set
RouteWrites_unguarded(st) ==
    LET intent == Get(st, "intent", None)
    IN IF intent = Some("query_product")
       THEN IF ~Truthy(Get(st, "item_name", None))
            THEN [st EXCEPT !.response = Some(MsgNoItem)] ELSE st
       ELSE IF intent \in {Some("ingest_product"), Some("greeting"), Some("unknown")}
       THEN st
       ELSE [st EXCEPT !.response = Some(MsgIssue)]

\* the router's assignments to the mapping it was called with
RouteWrites(st) ==
    LET intent == Get(st, "intent", None)
    IN IF intent = Some("query_product")
       THEN IF ~Truthy(Get(st, "item_name", None)) /\ ~Truthy(Get(st, "response", None))
            THEN [st EXCEPT !.response = Some(MsgNoItem)] ELSE st
       ELSE IF intent \in {Some("ingest_product"), Some("greeting"), Some("unknown")}
       THEN st
       ELSE IF ~Truthy(Get(st, "response", None))
            THEN [st EXCEPT !.response = Some(MsgIssue)] ELSE st

route_after_intent_analysis(st) == [decision |-> RouteDecision(st), state |-> RouteWrites(st)]

\* the edges with search_meili wired into the ingestion path instead of END
GraphEdge_searchFallsThrough(node, decision) ==
    IF node = "analyze_intent" THEN decision
    ELSE IF node = "search_meili" THEN "structure_ingestion_data"
    ELSE IF node = "structure_ingestion_data" THEN "add_product_to_meili"
    ELSE END

\* the edges with add_product_to_meili wired back to the structurer instead of END
GraphEdge_cycle(node, decision) ==
    IF node = "analyze_intent" THEN decision
    ELSE IF node = "structure_ingestion_data" THEN "add_product_to_meili"
    ELSE IF node = "add_product_to_meili" THEN "structure_ingestion_data"
    ELSE END

\* workflow.add_edge / add_conditional_edges: the node that follows `node`
GraphEdge(node, decision) ==
    IF node = "analyze_intent" THEN decision
    ELSE IF node = "structure_ingestion_data" THEN "add_product_to_meili"
    ELSE END

----------------------------------------------------------------------------
(* handle_incoming_message *)

\* AgentState(...) with every analysis and output field None
BlankState ==
    [ sender_id                |-> None,
      incoming_message_type    |-> None,
      incoming_text            |-> None,
      incoming_media_id        |-> None,
      incoming_media_path      |-> None,
      incoming_media_mime_type |-> None,
      incoming_media_filename  |-> None,
      intent                   |-> None,
      item_name                |-> None,
      location                 |-> None,
      price                    |-> None,
      currency                 |-> None,
      description              |-> None,
      product_to_ingest        |-> None,
      meili_filters            |-> None,
      search_results           |-> None,
      response                 |-> None,
      meili_task_id            |-> None,
      meili_task_status        |-> None ]

HasMedia(m) == m.type \in MediaKinds

\* msg.text if set, else msg.caption if set, else None
MessageText(m) ==
    IF Truthy(m.text) THEN m.text
    ELSE IF Truthy(m.caption) THEN m.caption
    ELSE None

\* the state the handler has built when it reaches the download
InitialState(m) ==
    [BlankState EXCEPT
       !.sender_id = Some(SenderId),
       !.incoming_message_type = Some(m.type),
       !.incoming_text = MessageText(m),
       !.incoming_media_mime_type = IF HasMedia(m) THEN Some(<<m.type, "/*">>) ELSE None,
       !.incoming_media_filename = IF m.type = "document" THEN Some(<<"f.pdf">>) ELSE None,
       !.incoming_media_id = IF HasMedia(m) THEN Some(<<"media-id">>) ELSE None]

GraphNodes == {"analyze_intent", "search_meili", "structure_ingestion_data",
               "add_product_to_meili"}

Init ==
    /\ msg \in Messages
    /\ pc = "received"
    /\ state = BlankState
    /\ route_state = None
    /\ route_decision = None
    /\ executed = <<>>
    /\ llm_calls = <<>>
    /\ meili_added = <<>>
    /\ meili_searches = <<>>
    /\ replies = <<>>
    /\ final_state = None
    /\ next_uuid = 1

\* lines 446-496: build the initial state from the message
BuildInitialState ==
    /\ pc = "received"
    /\ state' = InitialState(msg)
    /\ pc' = IF HasMedia(msg) THEN "download" ELSE "invoke"
    /\ UNCHANGED <<msg, route_state, route_decision, executed, llm_calls, meili_added,
                   meili_searches, replies, final_state, next_uuid>>

\* lines 498-523: the download sets the path only when it returns one
DownloadMedia ==
    /\ pc = "download"
    /\ \E r \in DownloadReplies :
         state' = IF r = "path"
                  THEN [state EXCEPT !.incoming_media_path = Some(<<"media_uploads/file">>)]
                  ELSE state
    /\ pc' = "invoke"
    /\ UNCHANGED <<msg, route_state, route_decision, executed, llm_calls, meili_added,
                   meili_searches, replies, final_state, next_uuid>>

\* line 532: app_graph.invoke(initial_state) enters the entry point
InvokeGraph ==
    /\ pc = "invoke"
    /\ pc' = "analyze_intent"
    /\ UNCHANGED <<msg, state, route_state, route_decision, executed, llm_calls,
                   meili_added, meili_searches, replies, final_state, next_uuid>>

AnalyzeIntent ==
    /\ pc = "analyze_intent"
    /\ \E llm \in LlmReplies :
         /\ state' = analyze_intent_node(state, llm)
         /\ llm_calls' = IF NoContent(state) THEN llm_calls
                         ELSE Append(llm_calls, [text |-> TextContent(state), reply |-> llm])
    /\ executed' = Append(executed, "analyze_intent")
    /\ pc' = "route"
    /\ UNCHANGED <<msg, route_state, route_decision, meili_added, meili_searches,
                   replies, final_state, next_uuid>>

\* the conditional edge: the router is called with a mapping read from the
\* graph's channels; only its return value goes back to the graph, what it
\* assigns to that mapping stays in the mapping
Route ==
    /\ pc = "route"
    /\ LET r == route_after_intent_analysis(state)
       IN /\ route_state' = Some(r.state)
          /\ route_decision' = Some(r.decision)
          /\ pc' = GraphEdge("analyze_intent", r.decision)
    /\ UNCHANGED <<msg, state, executed, llm_calls, meili_added, meili_searches,
                   replies, final_state, next_uuid>>

SearchMeili ==
    /\ pc = "search_meili"
    /\ \E result \in SearchReplies :
         /\ state' = search_meilisearch_node(state, result)
         /\ meili_searches' =
              IF SearchGuarded(state) THEN meili_searches
              ELSE Append(meili_searches, [query |-> state.item_name,
                                           search_params |-> SearchParams(state),
                                           reply |-> result])
    /\ executed' = Append(executed, "search_meili")
    /\ pc' = GraphEdge("search_meili", None)
    /\ UNCHANGED <<msg, route_state, route_decision, llm_calls, meili_added, replies,
                   final_state, next_uuid>>

StructureIngestionData ==
    /\ pc = "structure_ingestion_data"
    /\ state' = structure_ingestion_data_node(state, next_uuid)
    /\ next_uuid' = IF IsSome(state'.product_to_ingest) THEN next_uuid + 1 ELSE next_uuid
    /\ executed' = Append(executed, "structure_ingestion_data")
    /\ pc' = GraphEdge("structure_ingestion_data", None)
    /\ UNCHANGED <<msg, route_state, route_decision, llm_calls, meili_added,
                   meili_searches, replies, final_state>>

AddProductToMeili ==
    /\ pc = "add_product_to_meili"
    /\ \E reply \in AddReplies :
         /\ state' = add_product_to_meili_node(state, reply)
         /\ meili_added' =
              IF SubmitsDocument(state)
              THEN Append(meili_added, [document |-> Val(state.product_to_ingest),
                                        reply |-> reply])
              ELSE meili_added
    /\ executed' = Append(executed, "add_product_to_meili")
    /\ pc' = GraphEdge("add_product_to_meili", None)
    /\ UNCHANGED <<msg, route_state, route_decision, llm_calls, meili_searches, replies,
                   final_state, next_uuid>>

\* lines 532-534: invoke returns the final state; nothing is sent to the sender
InvokeReturns ==
    /\ pc = END
    /\ final_state' = Some(state)
    /\ pc' = "done"
    /\ UNCHANGED <<msg, state, route_state, route_decision, executed, llm_calls,
                   meili_added, meili_searches, replies, next_uuid>>

\* line 536: app_graph.invoke raises instead of returning
InvokeRaises ==
    /\ pc \in GraphNodes \cup {"route", END}
    /\ pc' = "except"
    /\ UNCHANGED <<msg, state, route_state, route_decision, executed, llm_calls,
                   meili_added, meili_searches, replies, final_state, next_uuid>>

\* the except branch replying with the run's response instead of the fixed text
FallbackReply_sendsResponse ==
    /\ pc = "except"
    /\ \E sent \in BOOLEAN :
         replies' = IF sent THEN Append(replies, FmtStr(state.response)) ELSE replies
    /\ pc' = "done"
    /\ UNCHANGED <<msg, state, route_state, route_decision, executed, llm_calls,
                   meili_added, meili_searches, final_state, next_uuid>>

\* lines 539-542: the fallback reply, which may itself fail and is then logged
FallbackReply ==
    /\ pc = "except"
    /\ \E sent \in BOOLEAN :
         replies' = IF sent THEN Append(replies, MsgInternalError) ELSE replies
    /\ pc' = "done"
    /\ UNCHANGED <<msg, state, route_state, route_decision, executed, llm_calls,
                   meili_added, meili_searches, final_state, next_uuid>>

Next ==
    \/ BuildInitialState
    \/ DownloadMedia
    \/ InvokeGraph
    \/ AnalyzeIntent
    \/ Route
    \/ SearchMeili
    \/ StructureIngestionData
    \/ AddProductToMeili
    \/ InvokeReturns
    \/ InvokeRaises
    \/ FallbackReply

Spec == Init /\ [][Next]_vars

\* the handler when app_graph.invoke does not raise: every external call of
\* the nodes sits inside the node's own try block, so the nodes themselves
\* never throw; the steps run one after the other until the handler returns
RunNext ==
    \/ BuildInitialState
    \/ DownloadMedia
    \/ InvokeGraph
    \/ AnalyzeIntent
    \/ Route
    \/ SearchMeili
    \/ StructureIngestionData
    \/ AddProductToMeili
    \/ InvokeReturns

RunSpec == Init /\ [][RunNext]_vars /\ WF_vars(RunNext)

----------------------------------------------------------------------------
(* Two handler calls at once *)

\* Under PairSpec the handler is entered twice, for two different messages,
\* and the steps of the two calls interleave in any order. Every variable but
\* next_uuid then holds one value per call: each call has its own msg, its
\* own initial_state and graph run, and the calls it made to the classifier
\* and the backend are logged per call. uuid.uuid4() is the one source both
\* calls draw from.
Runs == {1, 2}

\* the messages of the two calls
PairMessages ==
    { [type |-> "text", text |-> Some(<<"a">>), caption |-> None],
      [type |-> "image", text |-> None, caption |-> Some(<<"a">>)],
      [type |-> "location", text |-> None, caption |-> None] }

\* structured_llm.invoke for the two calls
PairLlmReplies ==
    { r \in LlmReplies :
        \/ ~r.ok
        \/ /\ r.analysis.intent \in {"query_product", "ingest_product"}
           /\ r.analysis.item_name # Some(<<>>)
           /\ r.analysis.location = (IF r.analysis.intent = "query_product"
                                     THEN Some(<<"k">>) ELSE None)
           /\ r.analysis.price = None
           /\ r.analysis.currency = None }

\* meili_index.search for the two calls
PairSearchReplies ==
    { r \in SearchReplies : r.kind = "ok" => ("hits" \in DOMAIN r.body /\ Len(r.body.hits) <= 1) }

\* meili_index.add_documents for the two calls
PairAddReplies == { r \in AddReplies : r.kind \in {"raise", "TaskInfo", "other"} }

\* a state record shared by every call
OwnState_shared(r) == state[1]

\* the state record of call r: the initial_state its handler call built and
\* handed to app_graph.invoke
OwnState(r) == state[r]

PairInit ==
    /\ msg \in { p \in [Runs -> PairMessages] : p[1] # p[2] }
    /\ pc = [r \in Runs |-> "received"]
    /\ state = [r \in Runs |-> BlankState]
    /\ route_state = [r \in Runs |-> None]
    /\ route_decision = [r \in Runs |-> None]
    /\ executed = [r \in Runs |-> <<>>]
    /\ llm_calls = [r \in Runs |-> <<>>]
    /\ meili_added = [r \in Runs |-> <<>>]
    /\ meili_searches = [r \in Runs |-> <<>>]
    /\ replies = [r \in Runs |-> <<>>]
    /\ final_state = [r \in Runs |-> None]
    /\ next_uuid = 1

PairBuildInitialState ==
    \E r \in Runs :
      /\ pc[r] = "received"
      /\ state' = [state EXCEPT ![r] = InitialState(msg[r])]
      /\ pc' = [pc EXCEPT ![r] = IF HasMedia(msg[r]) THEN "download" ELSE "invoke"]
      /\ UNCHANGED <<msg, route_state, route_decision, executed, llm_calls, meili_added,
                     meili_searches, replies, final_state, next_uuid>>

PairDownloadMedia ==
    \E r \in Runs :
      /\ pc[r] = "download"
      /\ \E d \in DownloadReplies :
           state' = [state EXCEPT ![r] =
                       IF d = "path"
                       THEN [OwnState(r) EXCEPT !.incoming_media_path = Some(<<"media_uploads/file">>)]
                       ELSE OwnState(r)]
      /\ pc' = [pc EXCEPT ![r] = "invoke"]
      /\ UNCHANGED <<msg, route_state, route_decision, executed, llm_calls, meili_added,
                     meili_searches, replies, final_state, next_uuid>>

PairInvokeGraph ==
    \E r \in Runs :
      /\ pc[r] = "invoke"
      /\ pc' = [pc EXCEPT ![r] = "analyze_intent"]
      /\ UNCHANGED <<msg, state, route_state, route_decision, executed, llm_calls,
                     meili_added, meili_searches, replies, final_state, next_uuid>>

PairAnalyzeIntent ==
    \E r \in Runs :
      /\ pc[r] = "analyze_intent"
      /\ \E llm \in PairLlmReplies :
           /\ state' = [state EXCEPT ![r] = analyze_intent_node(OwnState(r), llm)]
           /\ llm_calls' = [llm_calls EXCEPT ![r] =
                              IF NoContent(OwnState(r)) THEN @
                              ELSE Append(@, [text |-> TextContent(OwnState(r)), reply |-> llm])]
      /\ executed' = [executed EXCEPT ![r] = Append(@, "analyze_intent")]
      /\ pc' = [pc EXCEPT ![r] = "route"]
      /\ UNCHANGED <<msg, route_state, route_decision, meili_added, meili_searches,
                     replies, final_state, next_uuid>>

PairRoute ==
    \E r \in Runs :
      /\ pc[r] = "route"
      /\ LET routed == route_after_intent_analysis(OwnState(r))
         IN /\ route_state' = [route_state EXCEPT ![r] = Some(routed.state)]
            /\ route_decision' = [route_decision EXCEPT ![r] = Some(routed.decision)]
            /\ pc' = [pc EXCEPT ![r] = GraphEdge("analyze_intent", routed.decision)]
      /\ UNCHANGED <<msg, state, executed, llm_calls, meili_added, meili_searches,
                     replies, final_state, next_uuid>>

PairSearchMeili ==
    \E r \in Runs :
      /\ pc[r] = "search_meili"
      /\ \E result \in PairSearchReplies :
           /\ state' = [state EXCEPT ![r] = search_meilisearch_node(OwnState(r), result)]
           /\ meili_searches' = [meili_searches EXCEPT ![r] =
                IF SearchGuarded(OwnState(r)) THEN @
                ELSE Append(@, [query |-> OwnState(r).item_name,
                                search_params |-> SearchParams(OwnState(r)),
                                reply |-> result])]
      /\ executed' = [executed EXCEPT ![r] = Append(@, "search_meili")]
      /\ pc' = [pc EXCEPT ![r] = GraphEdge("search_meili", None)]
      /\ UNCHANGED <<msg, route_state, route_decision, llm_calls, meili_added, replies,
                     final_state, next_uuid>>

PairStructureIngestionData ==
    \E r \in Runs :
      /\ pc[r] = "structure_ingestion_data"
      /\ state' = [state EXCEPT ![r] = structure_ingestion_data_node(OwnState(r), next_uuid)]
      /\ next_uuid' = IF IsSome(state'[r].product_to_ingest) THEN next_uuid + 1 ELSE next_uuid
      /\ executed' = [executed EXCEPT ![r] = Append(@, "structure_ingestion_data")]
      /\ pc' = [pc EXCEPT ![r] = GraphEdge("structure_ingestion_data", None)]
      /\ UNCHANGED <<msg, route_state, route_decision, llm_calls, meili_added,
                     meili_searches, replies, final_state>>

PairAddProductToMeili ==
    \E r \in Runs :
      /\ pc[r] = "add_product_to_meili"
      /\ \E reply \in PairAddReplies :
           /\ state' = [state EXCEPT ![r] = add_product_to_meili_node(OwnState(r), reply)]
           /\ meili_added' = [meili_added EXCEPT ![r] =
                IF SubmitsDocument(OwnState(r))
                THEN Append(@, [document |-> Val(OwnState(r).product_to_ingest),
                                reply |-> reply])
                ELSE @]
      /\ executed' = [executed EXCEPT ![r] = Append(@, "add_product_to_meili")]
      /\ pc' = [pc EXCEPT ![r] = GraphEdge("add_product_to_meili", None)]
      /\ UNCHANGED <<msg, route_state, route_decision, llm_calls, meili_searches, replies,
                     final_state, next_uuid>>

PairInvokeReturns ==
    \E r \in Runs :
      /\ pc[r] = END
      /\ final_state' = [final_state EXCEPT ![r] = Some(OwnState(r))]
      /\ pc' = [pc EXCEPT ![r] = "done"]
      /\ UNCHANGED <<msg, state, route_state, route_decision, executed, llm_calls,
                     meili_added, meili_searches, replies, next_uuid>>

PairNext ==
    \/ PairBuildInitialState
    \/ PairDownloadMedia
    \/ PairInvokeGraph
    \/ PairAnalyzeIntent
    \/ PairRoute
    \/ PairSearchMeili
    \/ PairStructureIngestionData
    \/ PairAddProductToMeili
    \/ PairInvokeReturns

PairSpec == PairInit /\ [][PairNext]_vars

\* what one handler call returns from app_graph.invoke when it is the only
\* call: the nodes applied in the order of the graph's edges, for message m,
\* download outcome d, the replies llm, result and reply, and uuid4 value uuid
SoloFinalState(m, d, llm, result, reply, uuid) ==
    LET built == InitialState(m)
        initial_state == IF HasMedia(m) /\ d = "path"
                         THEN [built EXCEPT !.incoming_media_path = Some(<<"media_uploads/file">>)]
                         ELSE built
        analyzed == analyze_intent_node(initial_state, llm)
        next == GraphEdge("analyze_intent", route_after_intent_analysis(analyzed).decision)
    IN IF next = "search_meili" THEN search_meilisearch_node(analyzed, result)
       ELSE IF next = "structure_ingestion_data"
       THEN add_product_to_meili_node(structure_ingestion_data_node(analyzed, uuid), reply)
       ELSE analyzed

----------------------------------------------------------------------------
(* Properties *)

Ran(node) == \E i \in 1..Len(executed) : executed[i] = node

\* the graph run has reached its terminal marker
AtEnd == pc = END

\* the classifier was called and returned an analysis
LlmSucceeded == Len(llm_calls) = 1 /\ llm_calls[1].reply.ok
\* the classifier was called and raised
LlmFailed == Len(llm_calls) = 1 /\ ~llm_calls[1].reply.ok

\* C1: when the run reaches the terminal marker, response is a non-empty
\* string; stated for the path the claim names, the ingestion run whose
\* catalog write succeeded and recorded a task id (that run ends without one)
C1_ResponseSetAtEnd ==
    (AtEnd /\ IsSome(state.meili_task_id)) => Truthy(state.response)

\* C2: when the handler finishes, exactly one text reply has been delivered
\* to the sender; stated for the first case the claim names, the workflow run
\* that completes normally (that run sends none)
C2_ExactlyOneReply ==
    (pc = "done" /\ IsSome(final_state)) => Len(replies) = 1

\* C3: the search step and the ingestion steps never both run in one run,
\* and a run never both queries the backend and submits a document to it
C3_OneBranch ==
    /\ ~(Ran("search_meili") /\ (Ran("structure_ingestion_data") \/ Ran("add_product_to_meili")))
    /\ ~(meili_searches # <<>> /\ meili_added # <<>>)

\* a finished ingestion run that submitted its document
C3_Witness ==
    /\ AtEnd
    /\ executed = <<"analyze_intent", "structure_ingestion_data", "add_product_to_meili">>
    /\ Len(meili_added) = 1
    /\ meili_searches = <<>>

\* C4 as claimed: with media present the final intent is ingest_product even
\* when the classifier call fails
C4_MediaForcesIngestAlways ==
    (AtEnd /\ HasMedia(msg)) => state.intent = Some("ingest_product")

\* C4 amended: with media present the final intent is ingest_product whatever
\* analysis the classifier returns, and error when the classifier call raises
C4_MediaForcesIngest ==
    (AtEnd /\ HasMedia(msg)) =>
        /\ LlmSucceeded => state.intent = Some("ingest_product")
        /\ LlmFailed => state.intent = Some("error")
        /\ LlmSucceeded \/ LlmFailed

\* media present, the classifier answered query_product, the intent is ingest_product
C4_Witness ==
    /\ AtEnd
    /\ HasMedia(msg)
    /\ LlmSucceeded
    /\ llm_calls[1].reply.analysis.intent = "query_product"
    /\ state.intent = Some("ingest_product")

\* the message carries neither text nor media
EmptyMessage == ~Truthy(MessageText(msg)) /\ ~HasMedia(msg)

\* C5: for a message with neither text nor media the classifier step sets
\* intent = error, the external classifier is never called in the run, and
\* neither the search step nor an ingestion step runs
C5_NoContentShortCircuit ==
    EmptyMessage =>
        /\ llm_calls = <<>>
        /\ Ran("analyze_intent") => state.intent = Some("error")
        /\ ~Ran("search_meili")
        /\ ~Ran("structure_ingestion_data")
        /\ ~Ran("add_product_to_meili")
        /\ meili_searches = <<>> /\ meili_added = <<>>

\* an empty message whose run has ended after the classifier step alone
C5_Witness ==
    /\ EmptyMessage
    /\ AtEnd
    /\ executed = <<"analyze_intent">>
    /\ state.intent = Some("error")

\* the structurer has run on a state with neither item_name nor description
StructurerRejected ==
    /\ Ran("structure_ingestion_data")
    /\ ~Truthy(state.item_name)
    /\ ~Truthy(state.description)

\* C6 as claimed: after the structurer has run with item_name and description
\* both absent, the add_product_to_meili step is not invoked in that run
C6_WriterNotInvoked == StructurerRejected => ~Ran("add_product_to_meili")

\* C6 amended: after the structurer has run with item_name and description
\* both absent there is no catalog item and the response is the missing-fields
\* message; the add_product_to_meili step still runs, submits no document,
\* records no task and puts its own no-product-data error in the response
C6_NoDocumentWhenFieldsMissing ==
    StructurerRejected =>
        /\ IsNone(state.product_to_ingest)
        /\ meili_added = <<>>
        /\ IsNone(state.meili_task_id) /\ IsNone(state.meili_task_status)
        /\ pc = "add_product_to_meili" => state.response = Some(MsgMissingFields)
        /\ Ran("add_product_to_meili") => state.response = Some(MsgNoProductData)
        /\ AtEnd => Ran("add_product_to_meili")

\* a finished run whose structurer rejected and whose writer step ran
C6_Witness ==
    /\ AtEnd
    /\ StructurerRejected
    /\ Ran("add_product_to_meili")
    /\ meili_added = <<>>

\* C7: within a run, once response is a non-empty string no later step
\* changes it (stated as claimed; the writer replaces the structurer's
\* missing-fields message)
C7_ResponseNeverOverwritten ==
    [][(pc \in GraphNodes \cup {"route"} /\ Truthy(state.response))
         => state'.response = state.response]_vars

\* the document write was attempted and raised
WriteRaised == Len(meili_added) = 1 /\ meili_added[1].reply.kind = "raise"

\* C8: when the backend's document write raises, the response is the generic
\* ingestion-failure message and both task fields are still unset
C8_WriteFailure ==
    (Ran("add_product_to_meili") /\ WriteRaised) =>
        /\ state.response = Some(MsgAddError)
        /\ IsNone(state.meili_task_id)
        /\ IsNone(state.meili_task_status)

\* a finished run whose document write raised
C8_Witness == AtEnd /\ Ran("add_product_to_meili") /\ WriteRaised

\* C9: media without text, the classifier succeeds and extracts no item name:
\* description is "", a catalog item is built through the name fallback and
\* exactly one document is submitted (stated as claimed; the structurer
\* rejects the state and nothing is submitted)
C9_MediaNoCaptionIngests ==
    (/\ AtEnd
     /\ HasMedia(msg)
     /\ ~Truthy(MessageText(msg))
     /\ LlmSucceeded
     /\ ~Truthy(llm_calls[1].reply.analysis.item_name)) =>
        /\ state.description = Some(<<>>)
        /\ IsSome(state.product_to_ingest)
        /\ Len(meili_added) = 1

\* C10: a media id without a local media path ends the run with intent =
\* error and no document written (stated as claimed; the run goes down the
\* ingestion branch)
C10_MissingMediaRoutedToError ==
    (AtEnd /\ Truthy(state.incoming_media_id) /\ IsNone(state.incoming_media_path)) =>
        /\ state.intent = Some("error")
        /\ meili_added = <<>>

\* C11: when the classifier call fails, intent is error and response is the
\* fixed apology, the router returns the terminal marker, and the run makes
\* no search query and no catalog write; with media and without
C11_ClassifierFailure ==
    LlmFailed =>
        /\ state.intent = Some("error")
        /\ state.response = Some(MsgLlmTrouble)
        /\ IsSome(route_decision) => route_decision = Some(END)
        /\ ~Ran("search_meili")
        /\ ~Ran("structure_ingestion_data")
        /\ ~Ran("add_product_to_meili")
        /\ meili_searches = <<>> /\ meili_added = <<>>

\* a finished run of a media message whose classifier call failed
C11_Witness ==
    /\ AtEnd
    /\ HasMedia(msg)
    /\ LlmFailed
    /\ route_decision = Some(END)

\* app_graph.invoke raised: the handler is past it without a returned state
Raised == pc = "except" \/ (pc = "done" /\ IsNone(final_state))

\* C12 as claimed: when the run throws, the handler still ends with a final
\* state whose response is set
C12_FinalStateAfterThrow ==
    (pc = "done" /\ Raised) => Truthy(state.response)

\* C12 amended: when the run throws, at whatever step, the handler catches
\* it and finishes; no final state is produced, and the only thing sent to
\* the sender is the fixed internal-error text, at most once (it is not sent
\* when the reply call itself fails)
C12_FallbackReplyAfterThrow ==
    /\ pc = "except" => ENABLED FallbackReply
    /\ (pc = "done" /\ Raised) =>
          /\ IsNone(final_state)
          /\ replies \in {<<>>, <<MsgInternalError>>}

\* the run threw after the structurer had run, and the fixed text was sent
C12_Witness ==
    /\ pc = "done"
    /\ Raised
    /\ Ran("structure_ingestion_data")
    /\ replies = <<MsgInternalError>>

\* no node appears twice in the run
NoStepTwice ==
    \A i, j \in 1..Len(executed) : executed[i] = executed[j] => i = j

\* C13: every run terminates: from the entry step it reaches the terminal
\* marker, after at most four steps, no step runs twice, and no step runs
\* once the terminal marker is reached
C13_Terminates ==
    /\ [](Len(executed) <= 4 /\ NoStepTwice)
    /\ [][(pc \in {END, "done"}) => (executed' = executed)]_vars
    /\ (pc = "analyze_intent") ~> AtEnd

\* a run that has reached the terminal marker through its longest path
C13_Witness == AtEnd /\ Len(executed) = 3

\* C14: the router changes no field of the state it is given other than
\* response, and response only when it was absent and the decision is the
\* terminal marker (its decision is a function of that state alone)
C14_RouterFrame ==
    [][(pc = "route" /\ pc' # "except") =>
          LET given == state
              after == Val(route_state')
          IN /\ \A f \in DOMAIN given \ {"response"} : after[f] = given[f]
             /\ DOMAIN after = DOMAIN given
             /\ after.response # given.response =>
                   /\ ~Truthy(given.response)
                   /\ route_decision' = Some(END)
             /\ route_decision' = Some(RouteDecision(given))
             /\ state' = state]_vars

\* the router has filled an absent response on a terminal decision
C14_Witness ==
    /\ AtEnd
    /\ route_decision = Some(END)
    /\ IsSome(route_state)
    /\ Val(route_state).response = Some(MsgNoItem)
    /\ IsNone(state.response)

\* the search backend was queried and answered
SearchAnswered == Len(meili_searches) = 1 /\ meili_searches[1].reply.kind = "ok"
\* the hits of that answer
AnsweredHits == Get(meili_searches[1].reply.body, "hits", <<>>)
\* the search backend was queried and the call raised
SearchRaised == Len(meili_searches) = 1 /\ meili_searches[1].reply.kind = "raise"

\* how often a token occurs in a text
CountToken(text, tok) == Cardinality({i \in 1..Len(text) : text[i] = tok})

RECURSIVE HitLineNames(_)
\* the token that follows each "- " of a text, in order: the names on its hit lines
HitLineNames(text) ==
    IF Len(text) < 2 THEN <<>>
    ELSE IF Head(text) = "- " THEN <<text[2]>> \o HitLineNames(Tail(text))
    ELSE HitLineNames(Tail(text))

\* text `part` occurs in text `whole`
Contains(whole, part) ==
    \E i \in 1..(Len(whole) - Len(part) + 1) : SubSeq(whole, i, i + Len(part) - 1) = part

Min(a, b) == IF a < b THEN a ELSE b

\* C15: when the backend returns n >= 1 hits, the response has one line per
\* hit for the first min(n, 3) hits, in the backend's order, and no line for
\* a later hit
C15_HitLines ==
    (Ran("search_meili") /\ SearchAnswered /\ Len(AnsweredHits) >= 1) =>
        LET hits == AnsweredHits
            shown == Min(Len(hits), 3)
            text == Val(state.response)
        IN /\ CountToken(text, "- ") = shown
           /\ CountToken(text, "\n") = shown
           /\ HitLineNames(text) = [i \in 1..shown |-> Val(hits[i].name)[1]]

\* four hits came back, two different ones among the first three
C15_Witness ==
    /\ AtEnd
    /\ SearchAnswered
    /\ Len(AnsweredHits) = 4
    /\ AnsweredHits[1] # AnsweredHits[2]
    /\ HitLineNames(Val(state.response)) = <<"i", "j", "j">>

\* C16: when the backend returns no hit, the response is the not-found message:
\* it contains the query term, contains the location when one was retained,
\* and has no hit line
C16_NotFound ==
    (Ran("search_meili") /\ SearchAnswered /\ Len(AnsweredHits) = 0) =>
        LET text == Val(state.response)
        IN /\ Head(text) = "I couldn't find any '"
           /\ Contains(text, Val(state.item_name))
           /\ Truthy(state.location) => Contains(text, Val(state.location))
           /\ CountToken(text, "- ") = 0
           /\ CountToken(text, "\n") = 0
           /\ state.search_results = Some(<<>>)

\* no hit for a query that kept its location
C16_Witness ==
    /\ AtEnd
    /\ SearchAnswered
    /\ AnsweredHits = <<>>
    /\ Truthy(state.location)
    /\ Contains(Val(state.response), <<"i">>)

\* C17: when the search backend call fails, the search step ends with
\* search_results empty and the generic search-error response, and the run
\* goes on to the terminal marker
C17_SearchFailure ==
    (Ran("search_meili") /\ SearchRaised) =>
        /\ state.search_results = Some(<<>>)
        /\ state.response = Some(MsgSearchError)
        /\ pc \in {END, "done", "except"}

\* a finished run whose search call raised
C17_Witness == AtEnd /\ Ran("search_meili") /\ SearchRaised

\* C18: a catalog item built when the classifier extracted no currency has
\* the default currency UGX (stated as claimed; the state always has the key
\* 'currency', so state.get('currency', "UGX") returns its None)
C18_DefaultCurrency ==
    (IsSome(state.product_to_ingest) /\ IsNone(state.currency)) =>
        Val(state.product_to_ingest).currency = Some(<<"UGX">>)

\* C19: the router's decision follows the table, and on its terminal rows the
\* final response is the no-item message, the greeting, the fallback, or for
\* error the message an earlier step set (stated as claimed; what the router
\* assigns on the query row without an item never reaches the run's state)
C19_RouterTable ==
    IsSome(route_decision) =>
        LET intent == state.intent
            named == Truthy(state.item_name)
        IN /\ (intent = Some("query_product") /\ named) => route_decision = Some("search_meili")
           /\ (intent = Some("query_product") /\ ~named) => route_decision = Some(END)
           /\ intent = Some("ingest_product") => route_decision = Some("structure_ingestion_data")
           /\ intent \in {Some("greeting"), Some("unknown"), Some("error")}
                 => route_decision = Some(END)
           /\ AtEnd =>
                 /\ (intent = Some("query_product") /\ ~named) => state.response = Some(MsgNoItem)
                 /\ intent = Some("greeting") => state.response = Some(MsgGreeting)
                 /\ intent = Some("unknown") => state.response = Some(MsgUnknown)
                 /\ intent = Some("error") => state.response \in {Some(MsgNoContent), Some(MsgLlmTrouble), Some(MsgIssue)}

\* the five intents of the specification
FiveIntents == {"query_product", "ingest_product", "greeting", "unknown", "error"}

\* C20 as claimed: once the classifier step has run, intent is one of the
\* five values, whatever intent string the classifier returned
C20_IntentAmongFive ==
    Ran("analyze_intent") => (IsSome(state.intent) /\ Val(state.intent) \in FiveIntents)

\* C20 amended: once the classifier step has run, intent is one of the five
\* values or, for a message without media, the string the classifier
\* returned, kept verbatim; it is among the five whenever media is present,
\* the classifier failed or was not called, or it returned a known intent
C20_IntentAmongFiveOrVerbatim ==
    Ran("analyze_intent") =>
        /\ IsSome(state.intent)
        /\ Val(state.intent) \notin FiveIntents =>
              /\ ~HasMedia(msg)
              /\ LlmSucceeded
              /\ llm_calls[1].reply.analysis.intent \notin KnownIntents
              /\ state.intent = Some(llm_calls[1].reply.analysis.intent)

\* a text message whose classifier answered with an intent outside the known four
C20_Witness ==
    /\ AtEnd
    /\ ~HasMedia(msg)
    /\ LlmSucceeded
    /\ llm_calls[1].reply.analysis.intent = "ask_price"
    /\ state.intent = Some("ask_price")

\* C21: in every state, meili_filters is set only if intent is query_product
\* and the retained location is non-empty, and product_to_ingest is set only
\* if intent is ingest_product
C21_BranchFields ==
    /\ IsSome(state.meili_filters) =>
          /\ state.intent = Some("query_product")
          /\ Truthy(state.location)
    /\ IsSome(state.product_to_ingest) => state.intent = Some("ingest_product")

\* a finished search run that carried a filter
C21_Witness ==
    /\ AtEnd
    /\ Ran("search_meili")
    /\ state.meili_filters = Some(<<"vendor = '", "k", "'">>)
    /\ Len(meili_searches) = 1

\* the text the message carries, "" when it carries none
RawText == IF Truthy(MessageText(msg)) THEN MessageText(msg) ELSE Some(<<>>)

\* C22: after a successful classifier step, location is set only if the intent
\* is query_product and no media was present (the classifier's location is
\* kept in that case and dropped otherwise), and description is the message
\* text when the intent is ingest_product and None otherwise
C22_LocationAndDescription ==
    (Ran("analyze_intent") /\ LlmSucceeded) =>
        LET analysis == llm_calls[1].reply.analysis
            query == state.intent = Some("query_product")
        IN /\ IsSome(state.location) => (query /\ ~HasMedia(msg))
           /\ (query /\ ~HasMedia(msg)) => state.location = analysis.location
           /\ state.intent = Some("ingest_product") => state.description = RawText
           /\ state.intent # Some("ingest_product") => state.description = None

\* media with a caption, and a classifier that answered with a location: the
\* location is dropped and the caption is the description
C22_Witness ==
    /\ AtEnd
    /\ HasMedia(msg)
    /\ LlmSucceeded
    /\ IsSome(llm_calls[1].reply.analysis.location)
    /\ IsNone(state.location)
    /\ state.description = Some(<<"a", "\n", "b">>)

\* the document write was attempted and the backend answered
WriteAnswered == Len(meili_added) = 1 /\ meili_added[1].reply.kind # "raise"

\* C23: when the backend answers the write with a TaskInfo object or with a
\* dict that has the key taskUid, the writer records that task id and the
\* status enqueued; when the answer has neither shape, it sets the task-id
\* error response and leaves both task fields unset; at the terminal marker
\* the status is unset or enqueued
C23_TaskRecorded ==
    /\ (Ran("add_product_to_meili") /\ WriteAnswered) =>
          LET reply == meili_added[1].reply
              object == reply.kind = "TaskInfo"
              legacy == reply.kind = "dict" /\ "taskUid" \in DOMAIN reply.body
          IN /\ object => state.meili_task_id = Some(reply.task_uid)
             /\ legacy => state.meili_task_id = Some(reply.body.taskUid)
             /\ (object \/ legacy) => state.meili_task_status = Some("enqueued")
             /\ ~(object \/ legacy) =>
                   /\ state.response = Some(MsgNoTaskId)
                   /\ IsNone(state.meili_task_id)
                   /\ IsNone(state.meili_task_status)
    /\ AtEnd => state.meili_task_status \in {None, Some("enqueued")}

\* a finished run whose write was answered with the legacy dict
C23_Witness ==
    /\ AtEnd
    /\ WriteAnswered
    /\ meili_added[1].reply.kind = "dict"
    /\ state.meili_task_id = Some(8)
    /\ state.meili_task_status = Some("enqueued")

\* C24: when item_name is absent and description is present, the catalog
\* item's name is the first line of the description cut to at most 50
\* characters: a prefix of the description without a newline, which stops
\* short of 50 characters only at the first newline or at the end
C24_FallbackName ==
    (/\ IsSome(state.product_to_ingest)
     /\ ~Truthy(state.item_name)
     /\ Truthy(state.description)) =>
        LET desc == Val(state.description)
            name == Val(Val(state.product_to_ingest).name)
        IN /\ Len(name) <= 50
           /\ Len(name) <= Len(desc)
           /\ name = SubSeq(desc, 1, Len(name))
           /\ \A i \in 1..Len(name) : name[i] # "\n"
           /\ Len(name) < 50 => (Len(name) = Len(desc) \/ desc[Len(name) + 1] = "\n")

\* a description of more than 50 characters on one line, its name cut at 50
C24_Witness ==
    /\ IsSome(state.product_to_ingest)
    /\ ~Truthy(state.item_name)
    /\ Len(Val(state.description)) > 50
    /\ Len(Val(Val(state.product_to_ingest).name)) = 50

\* C25: every catalog item the structurer builds, and every document
\* submitted to the backend, has a non-empty name (stated as claimed; a
\* description whose first line is empty gives the name "")
C25_NameNonEmpty ==
    /\ IsSome(state.product_to_ingest) => Truthy(Val(state.product_to_ingest).name)
    /\ \A i \in 1..Len(meili_added) : Truthy(meili_added[i].document.name)

\* the fields the classifier step owns
ClassifierFields == {"intent", "item_name", "location", "price", "currency",
                     "description", "meili_filters"}
\* the fields the handler fills before the run
InputFields == {"sender_id", "incoming_message_type", "incoming_text", "incoming_media_id",
                "incoming_media_path", "incoming_media_mime_type", "incoming_media_filename"}

\* the fields of the state that a step changes
Changed == {f \in DOMAIN state : state'[f] # state[f]}

\* C26: no step after the classifier step changes a field the classifier
\* owns (nor does the router in the mapping it is given), no step changes
\* sender_id or an incoming field, the search step changes only
\* search_results and response, and the writer changes only the task id, the
\* task status and response
C26_FieldOwnership ==
    [][/\ DOMAIN state' = DOMAIN state
       /\ (pc \in (GraphNodes \cup {"route"}) \ {"analyze_intent"}) =>
             Changed \cap ClassifierFields = {}
       /\ (pc = "route" /\ pc' # "except") =>
             \A f \in ClassifierFields \cup InputFields : Val(route_state')[f] = state[f]
       /\ (pc \in GraphNodes \cup {"route"}) => Changed \cap InputFields = {}
       /\ pc = "search_meili" => Changed \subseteq {"search_results", "response"}
       /\ pc = "add_product_to_meili" =>
             Changed \subseteq {"meili_task_id", "meili_task_status", "response"}]_vars

\* a finished ingestion run whose write raised, the classifier's fields as
\* the classifier step left them
C26_Witness ==
    /\ AtEnd
    /\ WriteRaised
    /\ state.response = Some(MsgAddError)
    /\ state.intent = Some("ingest_product")
    /\ state.item_name = llm_calls[1].reply.analysis.item_name

\* C27: a run calls the classifier at most once; for a message with text or
\* media the classifier step calls it exactly once, with the message text
\* ("" for media without a caption); and a step that queries the backend or
\* submits a document comes after that call
C27_ClassifierOnceAndFirst ==
    /\ [](/\ Len(llm_calls) <= 1
          /\ (Ran("analyze_intent") /\ ~EmptyMessage) =>
                (Len(llm_calls) = 1 /\ llm_calls[1].text = RawText)
          /\ (meili_searches # <<>> \/ meili_added # <<>>) => Len(llm_calls) = 1)
    /\ [][(meili_searches' # meili_searches \/ meili_added' # meili_added) =>
             (Len(llm_calls) = 1 /\ llm_calls' = llm_calls)]_vars

\* media without a caption: the classifier was called with "" and the
\* document was submitted afterwards
C27_Witness ==
    /\ AtEnd
    /\ HasMedia(msg)
    /\ ~Truthy(MessageText(msg))
    /\ Len(llm_calls) = 1
    /\ llm_calls[1].text = Some(<<>>)
    /\ Len(meili_added) = 1

\* C29: in every state meili_task_id is set exactly when meili_task_status is
\* 'enqueued', and then the state has a catalog item, that item was
\* submitted to the backend exactly once, and intent is ingest_product
C29_TaskFieldsConsistent ==
    /\ IsSome(state.meili_task_id) <=> state.meili_task_status = Some("enqueued")
    /\ IsNone(state.meili_task_id) <=> IsNone(state.meili_task_status)
    /\ IsSome(state.meili_task_id) =>
          /\ IsSome(state.product_to_ingest)
          /\ Len(meili_added) = 1
          /\ meili_added[1].document = Val(state.product_to_ingest)
          /\ state.intent = Some("ingest_product")

\* a finished run whose write was answered with a TaskInfo object
C29_Witness ==
    /\ AtEnd
    /\ state.meili_task_id = Some(7)
    /\ state.meili_task_status = Some("enqueued")
    /\ Len(meili_added) = 1

\* the classifier answered a message without media with an intent outside
\* the known four
UnexpectedIntent ==
    /\ ~HasMedia(msg)
    /\ LlmSucceeded
    /\ llm_calls[1].reply.analysis.intent \notin KnownIntents

\* C30: for a message without media whose classifier answer carries an
\* intent outside the known four, the router returns the terminal marker,
\* neither the search step nor an ingestion step runs, and the final response
\* is the generic issue message (stated as claimed; what the router assigns
\* never reaches the run's state)
C30_UnexpectedIntentEnds ==
    (UnexpectedIntent /\ IsSome(route_decision)) =>
        /\ route_decision = Some(END)
        /\ ~Ran("search_meili")
        /\ ~Ran("structure_ingestion_data")
        /\ ~Ran("add_product_to_meili")
        /\ (pc = "done" /\ IsSome(final_state)) =>
              Val(final_state).response = Some(MsgIssue)

\* the reply a call got from a collaborator, any reply when it made no such call
RepliesOf(log, any) == IF log = <<>> THEN any ELSE {log[1].reply}

\* the variables that hold one value per handler call
PerRun == <<msg, pc, state, route_state, route_decision, executed, llm_calls,
            meili_added, meili_searches, replies, final_state>>

\* C28: two handler calls for different messages, their steps interleaved in
\* any order: each call's final state is the final state of that call alone
\* with the same replies of the classifier and the backend, and a step of one
\* call changes nothing that belongs to the other
C28_NoInterference ==
    /\ [](\A r \in Runs :
            pc[r] = "done" =>
              \E d \in DownloadReplies, uuid \in 1..2 :
              \E llm \in RepliesOf(llm_calls[r], PairLlmReplies) :
              \E result \in RepliesOf(meili_searches[r], PairSearchReplies) :
              \E reply \in RepliesOf(meili_added[r], PairAddReplies) :
                 final_state[r] = Some(SoloFinalState(msg[r], d, llm, result, reply, uuid)))
    /\ [][\E r \in Runs : \A q \in Runs \ {r} :
            \A i \in 1..Len(PerRun) : PerRun[i]'[q] = PerRun[i][q]]_vars

\* both calls ingest and both have finished; the second call's structurer ran
\* before the first call's, between the first call's start and its end
C28_Witness ==
    /\ pc = [r \in Runs |-> "done"]
    /\ msg[1].type = "text" /\ msg[2].type = "image"
    /\ IsSome(final_state[1]) /\ IsSome(final_state[2])
    /\ IsSome(Val(final_state[1]).product_to_ingest)
    /\ IsSome(Val(final_state[2]).product_to_ingest)
    /\ Val(Val(final_state[2]).product_to_ingest).id = Some(<<"uuid-", "1">>)
    /\ Val(Val(final_state[1]).product_to_ingest).id = Some(<<"uuid-", "2">>)

====
